---- MODULE Spec2Model ----
(***************************************************************************)
(* Barista-Cat audio pipeline: the gapless playback scheduler              *)
(* (lib/audio/playback.ts as documented in docs/audio-pipeline.md and the  *)
(* audio-processing patterns file), its cancellation protocol and the      *)
(* play() calls of the voice-chat orchestrator; the pure conversions of    *)
(* the audio pipeline (PCM codec, downsampler, capture batching, the       *)
(* interruption check); and the voice chat itself: the orchestrator        *)
(* component, the session hook and the token route.                        *)
(*                                                                         *)
(* Time is counted in ticks of 50 ms of AudioContext.currentTime, so the   *)
(* 0.1 s safety margin is 2 ticks and a 100 ms chunk lasts 2 ticks.        *)
(***************************************************************************)
EXTENDS Integers, Sequences, FiniteSets, TLC

\* ---------------------------------------------------------------- bounds
MaxChunks == 8      \* play() calls made in one behaviour
MaxPending == 4     \* play() calls awaiting decodeAudio at the same time
MaxTime == 9        \* last tick of the output clock
MaxDur == 2         \* longest decoded buffer, in ticks
DurPeriod == 2      \* period of the stream's pattern of buffer durations
MaxStops == 1       \* stop()/emergencyStop() calls made in one behaviour
MaxSamples == 480   \* longest input of the downsampler
MaxFed == 12        \* samples passed to the capture worklet in one behaviour
MaxBlock == 3       \* largest block of samples passed to process()
TARGET_CHUNK_SIZE == 4   \* the worklet's batch size, scaled down from ~640 samples
MaxSessions == 3    \* Gemini sessions opened in one behaviour
MaxTimers == 2      \* disconnect timers pending at the same time
MaxServerSessions == 2   \* sessions createSession makes in one behaviour
MaxMessages == 2    \* server messages arriving in one behaviour
MaxClock == 15      \* last instant of the server's clock, in units of 15 s

\* ------------------------------------------------------ program constants
PRE_BUFFER_CHUNKS == 4
MIN_BUFFER_CHUNKS == 3
LOOK_AHEAD_CHUNKS == 2
SAFETY_MARGIN == 2          \* currentTime + 0.1, in 50 ms ticks
NULL == -1                  \* nextScheduledTime = null
SAMPLES_PER_TICK == 1200    \* 24000 samples per second, 50 ms per tick
BYTES_PER_SAMPLE == 2       \* Int16Array.BYTES_PER_ELEMENT
INT16_MIN == -32768
INT16_MAX == 32767
INT16_TO_FLOAT == 32768     \* int16Array[i] / 32768.0
FLOAT_TO_INT16 == 32767     \* Math.round(clamped * 32767)
INPUT_SAMPLE_RATE == 48000
OUTPUT_SAMPLE_RATE == 16000
CLOSE_DELAY == 6            \* setTimeout(..., 6000), in seconds
QUEUE_LIMIT == 6            \* 'Queue limited by re-buffering logic (max ~6 chunks)'
INTERRUPTION_VOLUME_THRESHOLD == 22
SESSION_TIMEOUT == 12       \* 3 * 60 * 1000 ms, in units of 15 s
CLEANUP_INTERVAL == 2       \* setInterval(..., 30000), in units of 15 s

Durations == 1..MaxDur

VARIABLES
    state,                    \* 'IDLE' | 'BUFFERING' | 'PLAYING' | 'RE_BUFFERING'
    audioQueue,               \* decoded buffers awaiting scheduling, FIFO
    nextScheduledTime,        \* schedule cursor, NULL when unset
    currentlyPlayingSources,  \* sources started on the device, onended not yet run
    isPlayingAudio,           \* 'is currently sounding' signal
    currentTime,              \* audioContext.currentTime
    pendingPlays,             \* play() calls suspended at 'await decodeAudio'
    stoppedSources,           \* sources halted by source.stop(), onended not yet run
    schedLog,                 \* history: every source.start() made, in order
    epoch,                    \* history: number of stop()/emergencyStop() calls
    nextId,                   \* history: number of play() calls made
    callsInEpoch,             \* history: play() calls made since the last stop
    fromIdle,                 \* history: enqueues since the scheduler was IDLE,
                              \*          NULL once a stop() left it non-IDLE
    enqLog,                   \* history: enqLog[id] is the epoch in which the
                              \*          id-th buffer was pushed on the queue
    lastStop,                 \* history: the kind of the latest stop, if any
    chunkDur,                 \* input: the durations of the stream's chunks, a
                              \*        pattern of period DurPeriod
    oddChunk,                 \* input: the chunk whose payload is cut to an odd
                              \*        number of bytes, 0 when there is none
    errorLog                  \* history: console.error calls of onMessage's catch

\* the pure functions of the audio pipeline, each applied to one input
VARIABLES
    pureCase,                 \* which function the behaviour exercises
    int16Array,               \* input: Int16 samples
    viaFloat32,               \* int16Array after Int16 -> Float32 -> Int16
    viaTransport,             \* int16Array after bytes -> base64 -> bytes
    inputSamples,             \* input: samples captured at 48 kHz
    output16kHz,              \* inputSamples downsampled to 16 kHz
    level,                    \* input: volumeLevel.volumeLevel, 0..100
    threshold,                \* input: the interruption threshold
    isPlaybackActive,         \* input: audioPlayback.isPlayingAudio
    interrupts,               \* the decision of the interruption check
    buffer,                   \* the worklet's accumulator (this.buffer)
    emitted,                  \* history: the sample windows of the posted chunks
    fed,                      \* history: number of samples passed to process()
    sampleRate                \* input: the sample rate of the capture AudioContext

pureVars == <<pureCase, int16Array, viaFloat32, viaTransport, inputSamples,
              output16kHz, level, threshold, isPlaybackActive, interrupts,
              buffer, emitted, fed, sampleRate>>

\* the voice chat: the orchestrator component, the session hook and the
\* token route
VARIABLES
    apiKey,                   \* input: process.env.GEMINI_API_KEY, "" when unset
    tokenBody,                \* body of the latest response of POST /api/gemini/token
    pc,                       \* position of the running initialization, or "idle"
    flow,                     \* which initialization runs: "auto" | "gotobar" | "none"
    hasAutoInitialized,       \* hasAutoInitialized.current
    isInitializing,
    sessionEnded,
    isClosing,
    showMenu,
    isRecording,              \* audioCapture.isRecording
    isConnected,              \* geminiSession.isConnected
    sessionRef,               \* sessionRef.current: the open session's number, 0 for null
    sessions,                 \* history: sessions opened so far
    timers,                   \* pending setTimeout(handleDisconnect) timers
    playback,                 \* "sounding" while response audio plays, else "silent"
    delivered,                \* history: function calls of the message just delivered
    notified,                 \* history: onFunctionCall notifications it caused
    responded,                \* history: tool responses it caused
    openSessions,             \* the sessions whose connection is open
    realtimeInput,            \* what the latest onAudioData callback did with its
                              \* chunk: "sent" | "dropped", "none" outside it
    initLog,                  \* history: the steps the latest initialization has
                              \* completed and the greeting triggers it has sent
    bargeIn                   \* history: whether the interruption effect that just
                              \* ran called emergencyStop, and at which volume level

clientVars == <<apiKey, tokenBody, pc, flow, hasAutoInitialized, isInitializing,
                sessionEnded, isClosing, showMenu, isRecording, isConnected,
                sessionRef, sessions, timers, playback, delivered, notified,
                responded, openSessions, realtimeInput, initLog, bargeIn>>

playerVars == <<state, audioQueue, nextScheduledTime, currentlyPlayingSources,
                isPlayingAudio, currentTime, pendingPlays, stoppedSources,
                schedLog, epoch, nextId, callsInEpoch, fromIdle, enqLog, lastStop,
                chunkDur, oddChunk, errorLog>>

\* -------------------------------- state of the server's GeminiSessionManager
VARIABLES
    managerSessions,          \* this.sessions: session id -> SessionData
    serverNow,                \* Date.now(), in units of 15 s
    nextCleanup,              \* the instant the cleanup interval fires next
    created,                  \* history: session ids handed out so far
    arrived,                  \* history: server messages arrived so far
    received,                 \* history: per session, the messages queued for it
    fetched,                  \* history: per session, what getMessages returned
    lastTouched,              \* history: per session, the instant of its creation
                              \* or latest sendAudio, getMessages or message
    returned,                 \* outcome of the sendAudio or getMessages call just made
    cleaned                   \* the sessions the cleanup pass just made has closed

serverVars == <<managerSessions, serverNow, nextCleanup, created, arrived,
                received, fetched, lastTouched, returned, cleaned>>

\* what the player's actions leave alone
outsidePlayer == <<pureVars, clientVars, serverVars>>

\* what the pure functions leave alone
outsidePure == <<playerVars, clientVars, serverVars>>

\* what the voice chat's actions leave alone
outsideClient == <<playerVars, pureVars, serverVars>>

\* what the session manager's actions leave alone
outsideServer == <<playerVars, pureVars, clientVars>>

vars == <<playerVars, pureVars, clientVars, serverVars>>

\* ------------------------------------------------------------- scheduler

\* mutant: the cursor is also taken as stale when it equals the clock
CursorStale_Leq(nst, now) == nst = NULL \/ nst = 0 \/ nst <= now

\* if (!nextScheduledTime || nextScheduledTime < currentTime)
CursorStale(nst, now) == nst = NULL \/ nst = 0 \/ nst < now

\* mutant: every buffer starts at the clock plus the margin, cursor ignored
StartTime_AlwaysFresh(nst, now) == now + SAFETY_MARGIN

\* the time handed to source.start()
StartTime(nst, now) == IF CursorStale(nst, now) THEN now + SAFETY_MARGIN ELSE nst

\* mutant: the cursor advances by one tick whatever the buffer's duration
AdvanceCursor_OneTick(start, dur) == start + 1

\* nextScheduledTime += audioBuffer.duration
AdvanceCursor(start, dur) == start + dur

\* the observer signal raised when a source is registered as in flight
SoundingAfterSchedule == TRUE

\* mutant: the scheduled source is not recorded in the in-flight set
Track_Forget(sources, src) == sources

\* currentlyPlayingSources.add(source)
Track(sources, src) == sources \cup {src}

\* scheduleChunk: r is the record of the fields the scheduler mutates
ScheduleChunk(r, buf, now) ==
    LET start == StartTime(r.nst, now)
        src   == [id |-> buf.id, start |-> start, dur |-> buf.dur]
    IN  [r EXCEPT !.nst = AdvanceCursor(start, buf.dur),
                  !.src = Track(r.src, src),
                  !.playing = SoundingAfterSchedule,
                  !.log = Append(r.log, [id |-> buf.id, start |-> start,
                                         dur |-> buf.dur,
                                         ep |-> buf.ep, cep |-> buf.cep])]

\* mutant: the scheduling pass takes nothing from the queue
LoopGuard_Off(qlen, scheduledCount) == FALSE

\* while (audioQueue.length > 0 && scheduledCount < LOOK_AHEAD_CHUNKS)
LoopGuard(qlen, scheduledCount) == qlen > 0 /\ scheduledCount < LOOK_AHEAD_CHUNKS

\* mutant: the newest buffer is taken instead of the oldest
Shift_Newest(q) == q[Len(q)]

\* const chunk = audioQueue.shift(): the buffer taken
Shift(q) == Head(q)

RECURSIVE ScheduleLoop(_, _, _)
ScheduleLoop(r, scheduledCount, now) ==
    IF LoopGuard(Len(r.q), scheduledCount)
    THEN ScheduleLoop([ScheduleChunk(r, Shift(r.q), now) EXCEPT !.q = Tail(r.q)],
                      scheduledCount + 1, now)
    ELSE r

\* scheduleQueuedChunks
ScheduleQueuedChunks(r, now) == ScheduleLoop(r, 0, now)

\* mutant: every enqueue starts a BUFFERING cycle
FirstChunk_Always(st) == "BUFFERING"

\* IDLE -> BUFFERING on the first chunk
FirstChunk(st) == IF st = "IDLE" THEN "BUFFERING" ELSE st

\* mutant: playback starts one buffer early
PreBufferFull_Early(qlen) == qlen >= PRE_BUFFER_CHUNKS - 1

\* audioQueue.length >= PRE_BUFFER_CHUNKS
PreBufferFull(qlen) == qlen >= PRE_BUFFER_CHUNKS

\* mutant: re-buffering starts one buffer late
QueueLow_Late(st, qlen) == st = "PLAYING" /\ qlen < MIN_BUFFER_CHUNKS - 1

\* state === 'PLAYING' && audioQueue.length < MIN_BUFFER_CHUNKS
QueueLow(st, qlen) == st = "PLAYING" /\ qlen < MIN_BUFFER_CHUNKS

\* mutant: the resume test is strict
QueueRefilled_Strict(st, qlen) == st = "RE_BUFFERING" /\ qlen > MIN_BUFFER_CHUNKS

\* state === 'RE_BUFFERING' && audioQueue.length >= MIN_BUFFER_CHUNKS
QueueRefilled(st, qlen) == st = "RE_BUFFERING" /\ qlen >= MIN_BUFFER_CHUNKS

\* the BUFFERING branch: start playing once the pre-buffer is full, then return
PreBufferStep(r, now) ==
    IF PreBufferFull(Len(r.q))
    THEN ScheduleQueuedChunks([r EXCEPT !.st = "PLAYING"], now)
    ELSE r

\* mutant: entering RE_BUFFERING discards the queued buffers
EnterReBuffering_Flush(r) == [r EXCEPT !.st = "RE_BUFFERING", !.q = <<>>]

\* state = 'RE_BUFFERING'; return
EnterReBuffering(r) == [r EXCEPT !.st = "RE_BUFFERING"]

\* the re-buffer check, the resume and the normal playback of play()
ReBufferStep(r, now) ==
    IF QueueLow(r.st, Len(r.q))
    THEN EnterReBuffering(r)
    ELSE LET r2 == IF QueueRefilled(r.st, Len(r.q))
                   THEN ScheduleQueuedChunks([r EXCEPT !.st = "PLAYING"], now)
                   ELSE r
         IN  IF r2.st = "PLAYING" THEN ScheduleQueuedChunks(r2, now) ELSE r2

\* the body of play() after 'await decodeAudio': push, then the state checks
PlayBody(r, buf, now) ==
    LET r1 == [r EXCEPT !.q = Append(r.q, buf), !.st = FirstChunk(r.st)]
    IN  IF r1.st = "BUFFERING"
        THEN PreBufferStep(r1, now)
        ELSE ReBufferStep(r1, now)

Fields ==
    [st |-> state, q |-> audioQueue, nst |-> nextScheduledTime,
     src |-> currentlyPlayingSources, playing |-> isPlayingAudio, log |-> schedLog]

SetFields(r) ==
    /\ state' = r.st
    /\ audioQueue' = r.q
    /\ nextScheduledTime' = r.nst
    /\ currentlyPlayingSources' = r.src
    /\ isPlayingAudio' = r.playing
    /\ schedLog' = r.log

\* --------------------------------------------------------------- actions

InitPlayer ==
    /\ state = "IDLE"
    /\ audioQueue = <<>>
    /\ nextScheduledTime = NULL
    /\ currentlyPlayingSources = {}
    /\ isPlayingAudio = FALSE
    /\ currentTime = 0
    /\ pendingPlays = <<>>
    /\ stoppedSources = {}
    /\ schedLog = <<>>
    /\ epoch = 0
    /\ nextId = 0
    /\ callsInEpoch = 0
    /\ fromIdle = 0
    /\ enqLog = <<>>
    /\ lastStop = "none"
    /\ chunkDur \in [1..DurPeriod -> Durations]
    /\ errorLog = 0

\* no pure function is exercised
PureIdle ==
    /\ pureCase = "none"
    /\ int16Array = <<>> /\ viaFloat32 = <<>> /\ viaTransport = <<>>
    /\ inputSamples = <<>> /\ output16kHz = <<>>
    /\ level = 0 /\ threshold = 0 /\ isPlaybackActive = FALSE
    /\ interrupts = "unset"
    /\ buffer = <<>> /\ emitted = <<>> /\ fed = 0
    /\ sampleRate = INPUT_SAMPLE_RATE

NoBody == [status |-> 0, token |-> "", error |-> ""]

\* the interruption effect has not just called emergencyStop
NoBargeIn == [called |-> FALSE, level |-> 0]

\* the page of the voice chat is not loaded
ClientIdle ==
    /\ apiKey = ""
    /\ tokenBody = NoBody
    /\ pc = "idle" /\ flow = "none"
    /\ hasAutoInitialized = FALSE
    /\ isInitializing = TRUE
    /\ sessionEnded = FALSE /\ isClosing = FALSE /\ showMenu = FALSE
    /\ isRecording = FALSE /\ isConnected = FALSE
    /\ sessionRef = 0 /\ sessions = 0
    /\ timers = {}
    /\ playback = "silent"
    /\ delivered = <<>> /\ notified = <<>> /\ responded = <<>>
    /\ openSessions = {}
    /\ realtimeInput = "none"
    /\ initLog = <<>>
    /\ bargeIn = NoBargeIn

SessionIds == 1..MaxServerSessions

\* no sendAudio or getMessages call has just been made
NoCall == [op |-> "none", id |-> 0, msgs |-> <<>>, threw |-> FALSE]

\* the session manager is constructed and no session has been created
ServerIdle ==
    /\ managerSessions = <<>>
    /\ serverNow = 0
    /\ nextCleanup = CLEANUP_INTERVAL
    /\ created = 0 /\ arrived = 0
    /\ received = [id \in SessionIds |-> <<>>]
    /\ fetched = [id \in SessionIds |-> <<>>]
    /\ lastTouched = [id \in SessionIds |-> 0]
    /\ returned = NoCall
    /\ cleaned = {}

\* a stream of well-formed chunks
Init == InitPlayer /\ oddChunk = 0 /\ PureIdle /\ ClientIdle /\ ServerIdle

\* a stream in which one chunk arrives with an odd number of bytes
InitDecode ==
    InitPlayer /\ oddChunk \in 1..MaxChunks /\ PureIdle /\ ClientIdle /\ ServerIdle

\* audioBuffer.duration of the id-th chunk of the stream
DurationOf(id) == chunkDur[((id - 1) % DurPeriod) + 1]

\* byte length of the decoded base64 payload of the id-th chunk
PayloadBytes(id) ==
    BYTES_PER_SAMPLE * SAMPLES_PER_TICK * DurationOf(id)
        - (IF id = oddChunk THEN 1 ELSE 0)

\* new Int16Array(bytes.buffer) throws a RangeError unless the byte length is
\* a multiple of the element size
DecodeThrows(nbytes) == nbytes % BYTES_PER_SAMPLE # 0

\* mutant: the state machine has moved before decodeAudio rejects
RejectedPlay_Moved(r) == [r EXCEPT !.st = FirstChunk(r.st)]

\* the player's fields after a play() that rejected at 'await decodeAudio'
RejectedPlay(r) == r

\* onMessage: audioPlayback.play(message.audioData) runs up to its await
PlayCall ==
    /\ nextId < MaxChunks
    /\ Len(pendingPlays) < MaxPending
    /\ nextId' = nextId + 1
    /\ callsInEpoch' = callsInEpoch + 1
    /\ pendingPlays' = Append(pendingPlays, [id |-> nextId + 1, cep |-> epoch])
    /\ UNCHANGED <<state, audioQueue, nextScheduledTime, currentlyPlayingSources,
                   isPlayingAudio, currentTime, stoppedSources, schedLog, epoch,
                   fromIdle, enqLog, lastStop, chunkDur, oddChunk, errorLog>>
    /\ UNCHANGED outsidePlayer

\* decodeAudio resolves and play() continues to its end
PlayResume ==
    /\ pendingPlays # <<>>
    /\ ~DecodeThrows(PayloadBytes(Head(pendingPlays).id))
    /\ LET p   == Head(pendingPlays)
           buf == [id |-> p.id, dur |-> DurationOf(p.id), cep |-> p.cep,
                   ep |-> epoch]
       IN  SetFields(PlayBody(Fields, buf, currentTime))
    /\ pendingPlays' = Tail(pendingPlays)
    /\ fromIdle' = IF fromIdle = NULL THEN NULL ELSE fromIdle + 1
    /\ enqLog' = Append(enqLog, epoch)
    /\ UNCHANGED <<currentTime, stoppedSources, epoch, nextId, callsInEpoch,
                   lastStop, chunkDur, oddChunk, errorLog>>
    /\ UNCHANGED outsidePlayer

\* decodeAudio throws: play() rejects, the hook logs and rethrows, and the
\* catch of onMessage logs the error
PlayDecodeFails ==
    /\ pendingPlays # <<>>
    /\ DecodeThrows(PayloadBytes(Head(pendingPlays).id))
    /\ SetFields(RejectedPlay(Fields))
    /\ pendingPlays' = Tail(pendingPlays)
    /\ errorLog' = errorLog + 1
    /\ UNCHANGED <<currentTime, stoppedSources, epoch, nextId, callsInEpoch,
                   fromIdle, enqLog, lastStop, chunkDur, oddChunk>>
    /\ UNCHANGED outsidePlayer

\* mutant: every onended callback lowers the signal
SoundingAfterEnded_Lowered(sources, playing) == FALSE

\* if (this.currentlyPlayingSources.size === 0) this.isPlayingAudio = false
SoundingAfterEnded(sources, playing) == IF sources = {} THEN FALSE ELSE playing

\* source.onended of a source that played to its end
OnEnded ==
    \E s \in currentlyPlayingSources :
        /\ s.start + s.dur <= currentTime
        /\ currentlyPlayingSources' = currentlyPlayingSources \ {s}
        /\ isPlayingAudio' = SoundingAfterEnded(currentlyPlayingSources',
                                                isPlayingAudio)
        /\ UNCHANGED <<state, audioQueue, nextScheduledTime, currentTime,
                       pendingPlays, stoppedSources, schedLog, epoch, nextId,
                       callsInEpoch, fromIdle, enqLog, lastStop, chunkDur, oddChunk, errorLog>>
        /\ UNCHANGED outsidePlayer

\* source.onended of a source that stop()/emergencyStop() halted
OnEndedStopped ==
    \E s \in stoppedSources :
        /\ stoppedSources' = stoppedSources \ {s}
        /\ currentlyPlayingSources' = currentlyPlayingSources \ {s}
        /\ isPlayingAudio' = SoundingAfterEnded(currentlyPlayingSources',
                                                isPlayingAudio)
        /\ UNCHANGED <<state, audioQueue, nextScheduledTime, currentTime,
                       pendingPlays, schedLog, epoch, nextId, callsInEpoch,
                       fromIdle, enqLog, lastStop, chunkDur, oddChunk, errorLog>>
        /\ UNCHANGED outsidePlayer

\* mutant: source.stop() is called outside a try block
HaltSource_Unguarded(s, now) ==
    IF s.start + s.dur <= now THEN "raised" ELSE "halted"

\* try { source.stop() } catch (e) { /* ignore if already stopped */ }
HaltSource(s, now) ==
    IF s.start + s.dur <= now THEN "ignored" ELSE "halted"

\* the fields emergencyStop() works on; raised: an exception has left it
StopFields ==
    [st |-> state, q |-> audioQueue, nst |-> nextScheduledTime,
     src |-> currentlyPlayingSources, playing |-> isPlayingAudio,
     raised |-> FALSE]

\* emergencyStop(): halt every source, clear the set, clear the queue, reset
\* the state; an exception of the forEach would leave before the clear()
EmergencyStopResult(r, now) ==
    IF \E s \in r.src : HaltSource(s, now) = "raised"
    THEN [r EXCEPT !.raised = TRUE]
    ELSE [r EXCEPT !.src = {}, !.q = <<>>, !.st = "IDLE", !.nst = NULL,
                   !.playing = FALSE]

EmergencyStop ==
    /\ epoch < MaxStops
    /\ LET r == EmergencyStopResult(StopFields, currentTime)
       IN  /\ stoppedSources' =
                 stoppedSources \cup (currentlyPlayingSources \ r.src)
           /\ currentlyPlayingSources' = r.src
           /\ audioQueue' = r.q
           /\ state' = r.st
           /\ nextScheduledTime' = r.nst
           /\ isPlayingAudio' = r.playing
    /\ epoch' = epoch + 1
    /\ callsInEpoch' = 0
    /\ fromIdle' = 0
    /\ lastStop' = "emergencyStop"
    /\ UNCHANGED <<currentTime, pendingPlays, schedLog, nextId, enqLog, chunkDur, oddChunk, errorLog>>
    /\ UNCHANGED outsidePlayer

Stop ==
    /\ epoch < MaxStops
    /\ stoppedSources' = stoppedSources \cup currentlyPlayingSources
    /\ currentlyPlayingSources' = {}
    /\ audioQueue' = <<>>
    /\ epoch' = epoch + 1
    /\ callsInEpoch' = 0
    /\ fromIdle' = IF state = "IDLE" THEN 0 ELSE NULL
    /\ lastStop' = "stop"
    /\ UNCHANGED <<state, nextScheduledTime, isPlayingAudio, currentTime,
                   pendingPlays, schedLog, nextId, enqLog, chunkDur, oddChunk, errorLog>>
    /\ UNCHANGED outsidePlayer

\* the output device's clock advances
Tick ==
    /\ currentTime < MaxTime
    /\ currentTime' = currentTime + 1
    /\ UNCHANGED <<state, audioQueue, nextScheduledTime, currentlyPlayingSources,
                   isPlayingAudio, pendingPlays, stoppedSources, schedLog, epoch,
                   nextId, callsInEpoch, fromIdle, enqLog, lastStop, chunkDur, oddChunk, errorLog>>
    /\ UNCHANGED outsidePlayer

Next ==
    \/ PlayCall
    \/ PlayResume
    \/ OnEnded
    \/ OnEndedStopped
    \/ EmergencyStop
    \/ Stop
    \/ Tick

Spec == Init /\ [][Next]_vars

NextDecode ==
    \/ PlayCall
    \/ PlayResume
    \/ PlayDecodeFails
    \/ OnEnded
    \/ OnEndedStopped
    \/ EmergencyStop
    \/ Stop
    \/ Tick

SpecDecode == InitDecode /\ [][NextDecode]_vars

\* the output clock of a stream that is left to play out: it runs on after
\* MaxTime for as long as a scheduled buffer has still to end
TickLive ==
    /\ currentTime < MaxTime \/ \E s \in currentlyPlayingSources :
                                    s.start + s.dur > currentTime
    /\ currentTime' = currentTime + 1
    /\ UNCHANGED <<state, audioQueue, nextScheduledTime, currentlyPlayingSources,
                   isPlayingAudio, pendingPlays, stoppedSources, schedLog, epoch,
                   nextId, callsInEpoch, fromIdle, enqLog, lastStop, chunkDur,
                   oddChunk, errorLog>>
    /\ UNCHANGED outsidePlayer

\* a stream that is never stopped
NextLive ==
    \/ PlayCall
    \/ PlayResume
    \/ OnEnded
    \/ TickLive

\* every pending decode resolves, the device's clock runs and the browser
\* delivers the onended event of every source that has ended; the arrival of
\* further chunks is not promised
SpecLive ==
    /\ Init
    /\ [][NextLive]_vars
    /\ WF_vars(PlayResume)
    /\ WF_vars(OnEnded)
    /\ WF_vars(TickLive)


\* -------------------------------------------------------- pure functions

\* a Float32 sample is the exact fraction num / den

\* int16Array[i] / 32768.0
Int16ToFloat32(v) == [num |-> v, den |-> INT16_TO_FLOAT]

\* Math.max(-1.0, Math.min(1.0, x))
Clamp(f) == IF f.num > f.den THEN [num |-> f.den, den |-> f.den]
            ELSE IF f.num < -f.den THEN [num |-> -f.den, den |-> f.den]
            ELSE f

\* Math.round: the nearest integer, halves towards +Infinity
MathRound(num, den) == (2 * num + den) \div (2 * den)

\* mutant: the scale of the opposite conversion is used
Float32ToInt16_Scale32768(f) ==
    LET v == MathRound(Clamp(f).num * INT16_TO_FLOAT, f.den)
    IN  IF v > INT16_MAX THEN INT16_MAX ELSE v

\* Math.round(clamped * 32767)
Float32ToInt16(f) == MathRound(Clamp(f).num * FLOAT_TO_INT16, f.den)

\* new Uint8Array(int16Array.buffer): two little-endian bytes per sample
RECURSIVE Int16ToBytes(_)
Int16ToBytes(s) ==
    IF s = <<>> THEN <<>>
    ELSE LET u == Head(s) % 65536
         IN  <<u % 256, u \div 256>> \o Int16ToBytes(Tail(s))

\* new Int16Array(bytes.buffer), for an even number of bytes
RECURSIVE BytesToInt16(_)
BytesToInt16(b) ==
    IF Len(b) < 2 THEN <<>>
    ELSE LET u == b[1] + 256 * b[2]
         IN  <<IF u > INT16_MAX THEN u - 65536 ELSE u>>
                 \o BytesToInt16(SubSeq(b, 3, Len(b)))

\* btoa: base64 text as a sequence of 6-bit digits, 64 standing for '='
RECURSIVE Btoa(_)
Btoa(b) ==
    IF b = <<>> THEN <<>>
    ELSE IF Len(b) = 1
         THEN <<b[1] \div 4, (b[1] % 4) * 16, 64, 64>>
    ELSE IF Len(b) = 2
         THEN <<b[1] \div 4, (b[1] % 4) * 16 + b[2] \div 16, (b[2] % 16) * 4, 64>>
    ELSE <<b[1] \div 4, (b[1] % 4) * 16 + b[2] \div 16,
           (b[2] % 16) * 4 + b[3] \div 64, b[3] % 64>>
             \o Btoa(SubSeq(b, 4, Len(b)))

\* atob followed by charCodeAt: the bytes of a base64 text
RECURSIVE Atob(_)
Atob(x) ==
    IF Len(x) < 4 THEN <<>>
    ELSE LET b1 == x[1] * 4 + x[2] \div 16
             b2 == (x[2] % 16) * 16 + (x[3] % 64) \div 4
             b3 == (x[3] % 4) * 64 + (x[4] % 64)
         IN  (IF x[3] = 64 THEN <<b1>>
              ELSE IF x[4] = 64 THEN <<b1, b2>>
              ELSE <<b1, b2, b3>>) \o Atob(SubSeq(x, 5, Len(x)))

\* mutant: only whole groups of ratio samples give an output sample
Iterations_WholeGroups(len, sourceRate, targetRate) ==
    {k \in 0..len : (k + 1) * sourceRate <= len * targetRate}

\* for (i = 0; i < inputSamples.length; i += ratio): the iterations made,
\* numbered from 0; in the k-th one i = k * sourceRate / targetRate
Iterations(len, sourceRate, targetRate) ==
    {k \in 0..len : k * sourceRate < len * targetRate}

\* inputSamples[Math.floor(i)] in the k-th iteration
SampleAt(in, k, sourceRate, targetRate) == in[(k * sourceRate) \div targetRate + 1]

\* output16kHz[outputIndex++] = inputSamples[Math.floor(i)]
Downsample(in, sourceRate, targetRate) ==
    [j \in 1..Cardinality(Iterations(Len(in), sourceRate, targetRate)) |->
        SampleAt(in, j - 1, sourceRate, targetRate)]

\* volumeLevel.volumeLevel > INTERRUPTION_VOLUME_THRESHOLD
IsUserSpeaking(lvl, thr) == lvl > thr

\* mutant: a level equal to the threshold counts as speaking
ShouldInterrupt_Geq(lvl, thr, active) == lvl >= thr /\ active

\* isUserSpeaking && audioPlayback.isPlayingAudio
ShouldInterrupt(lvl, thr, active) == IsUserSpeaking(lvl, thr) /\ active

\* mutant: only the target size is posted and the rest is thrown away
Batch_Truncate(acc) ==
    IF Len(acc) >= TARGET_CHUNK_SIZE
    THEN [post |-> <<SubSeq(acc, 1, TARGET_CHUNK_SIZE)>>, buffer |-> <<>>]
    ELSE [post |-> <<>>, buffer |-> acc]

\* process(), after the push: post the whole accumulator once it holds
\* TARGET_CHUNK_SIZE samples and empty it
Batch(acc) ==
    IF Len(acc) >= TARGET_CHUNK_SIZE
    THEN [post |-> <<acc>>, buffer |-> <<>>]
    ELSE [post |-> <<>>, buffer |-> acc]

\* the player while the pure functions are exercised
PlayerIdle == InitPlayer /\ oddChunk = 0 /\ chunkDur = [i \in 1..DurPeriod |-> 1]

\* sample values at the ends and in the middle of the Int16 range
EdgeSamples == {INT16_MIN, -16385, -1, 0, 1, 255, 256, 16384, INT16_MAX}

\* the sample rates of the capture AudioContext: ratio = sampleRate / 16000
SampleRates == {44100, INPUT_SAMPLE_RATE}

InitPure ==
    /\ PlayerIdle
    /\ ClientIdle
    /\ ServerIdle
    /\ pureCase \in {"pcm", "downsample", "decimate", "interrupt", "capture"}
    /\ int16Array \in
          IF pureCase = "pcm"
          THEN {<<v>> : v \in INT16_MIN..INT16_MAX}
                 \cup {<<a, b>> : a \in EdgeSamples, b \in EdgeSamples}
                 \cup {<<a, b, 0>> : a \in EdgeSamples, b \in EdgeSamples}
          ELSE {<<>>}
    /\ viaFloat32 = <<>> /\ viaTransport = <<>>
    /\ inputSamples \in
          IF pureCase \in {"downsample", "decimate"}
          THEN {[i \in 1..n |-> i - 1] : n \in 0..MaxSamples}
          ELSE {<<>>}
    /\ output16kHz = <<>>
    /\ level \in IF pureCase = "interrupt" THEN 0..100 ELSE {0}
    /\ threshold \in IF pureCase = "interrupt" THEN 0..100 ELSE {0}
    /\ isPlaybackActive \in IF pureCase = "interrupt" THEN BOOLEAN ELSE {FALSE}
    /\ interrupts = "unset"
    /\ buffer = <<>> /\ emitted = <<>> /\ fed = 0
    /\ sampleRate \in IF pureCase = "decimate" THEN SampleRates
                      ELSE {INPUT_SAMPLE_RATE}

\* Int16 -> Float32 -> Int16, and Int16 -> bytes -> base64 -> bytes -> Int16
ConvertPcm ==
    /\ pureCase = "pcm"
    /\ viaFloat32 = <<>> /\ int16Array # <<>>
    /\ viaFloat32' = [i \in DOMAIN int16Array |->
                         Float32ToInt16(Int16ToFloat32(int16Array[i]))]
    /\ viaTransport' = BytesToInt16(Atob(Btoa(Int16ToBytes(int16Array))))
    /\ UNCHANGED <<pureCase, int16Array, inputSamples, output16kHz, level,
                   threshold, isPlaybackActive, interrupts, buffer, emitted, fed,
                   sampleRate>>
    /\ UNCHANGED outsidePure

\* the downsample loop of process(), from the context's rate to 16000 Hz
DownsampleInput ==
    /\ pureCase \in {"downsample", "decimate"}
    /\ output16kHz = <<>> /\ inputSamples # <<>>
    /\ output16kHz' = Downsample(inputSamples, sampleRate, OUTPUT_SAMPLE_RATE)
    /\ UNCHANGED <<pureCase, int16Array, viaFloat32, viaTransport, inputSamples,
                   level, threshold, isPlaybackActive, interrupts, buffer,
                   emitted, fed, sampleRate>>
    /\ UNCHANGED outsidePure

\* the interruption check of the voice chat
CheckInterruption ==
    /\ pureCase = "interrupt"
    /\ interrupts = "unset"
    /\ interrupts' = IF ShouldInterrupt(level, threshold, isPlaybackActive)
                     THEN "yes" ELSE "no"
    /\ UNCHANGED <<pureCase, int16Array, viaFloat32, viaTransport, inputSamples,
                   output16kHz, level, threshold, isPlaybackActive, buffer,
                   emitted, fed, sampleRate>>
    /\ UNCHANGED outsidePure

\* AudioWorklet process(): one block of raw samples arrives; the samples are
\* numbered in their order of capture
Process ==
    /\ pureCase = "capture"
    /\ \E n \in 1..MaxBlock :
          /\ fed + n <= MaxFed
          /\ LET block == [i \in 1..n |-> fed + i]
                 b == Batch(buffer \o block)
             IN  /\ buffer' = b.buffer
                 /\ emitted' = emitted \o b.post
          /\ fed' = fed + n
    /\ UNCHANGED <<pureCase, int16Array, viaFloat32, viaTransport, inputSamples,
                   output16kHz, level, threshold, isPlaybackActive, interrupts,
                   sampleRate>>
    /\ UNCHANGED outsidePure

NextPure ==
    \/ ConvertPcm
    \/ DownsampleInput
    \/ CheckInterruption
    \/ Process

SpecPure == InitPure /\ [][NextPure]_vars


\* ------------------------------------------------------------ voice chat

\* POST /api/gemini/token: the body and status of the response
TokenRoute(key) ==
    IF key = ""
    THEN [status |-> 500, token |-> "", error |-> "GEMINI_API_KEY not configured"]
    ELSE [status |-> 200, token |-> key, error |-> ""]

\* the functions declared to the model
KnownFunctions == {"show_menu", "hide_menu", "close_session"}

\* for (const funcCall of calls) if ([...].includes(funcCall.name)) {...; break}
FirstKnown(calls) ==
    LET known == {i \in DOMAIN calls : calls[i].name \in KnownFunctions}
    IN  IF known = {} THEN <<>>
        ELSE <<calls[CHOOSE i \in known : \A j \in known : i <= j]>>

\* mutant: every known call of toolCall.functionCalls is passed on
ParseFunctionCall_All(m) ==
    IF m.tool # <<>> THEN m.tool ELSE FirstKnown(m.part)

\* parseLiveServerMessage: result.functionCall, as a sequence of 0 or 1 call
ParseFunctionCall(m) ==
    IF FirstKnown(m.tool) # <<>> THEN FirstKnown(m.tool) ELSE FirstKnown(m.part)

\* the server messages: a toolCall with its functionCalls, or server content
\* with a functionCall part of the model turn, or server content with audio
ToolCalls ==
    {<<>>}
      \cup {<<[id |-> 1, name |-> a]>> : a \in KnownFunctions}
      \cup {<<[id |-> 1, name |-> a], [id |-> 2, name |-> b]>> :
               a \in KnownFunctions, b \in KnownFunctions}

PartCalls == {<<>>} \cup {<<[id |-> 3, name |-> a]>> : a \in KnownFunctions}

Messages ==
    [tool : ToolCalls, part : {<<>>}, audio : {FALSE}]
      \cup [tool : {<<>>}, part : PartCalls, audio : {FALSE}]
      \cup {[tool |-> <<>>, part |-> <<>>, audio |-> TRUE]}

\* onFunctionCall of the voice chat, on the fields it sets
OnFunctionCall(ui, name) ==
    IF name = "show_menu" THEN [ui EXCEPT !.showMenu = TRUE]
    ELSE IF name = "hide_menu" THEN [ui EXCEPT !.showMenu = FALSE]
    ELSE IF name = "close_session"
    THEN [ui EXCEPT !.isClosing = TRUE,
                    !.showMenu = FALSE,
                    !.timers = ui.timers \cup
                        {[remaining |-> CLOSE_DELAY, session |-> sessionRef,
                          first |-> ~ui.isClosing]}]
    ELSE ui

RECURSIVE NotifyAll(_, _)
NotifyAll(ui, calls) ==
    IF calls = <<>> THEN ui
    ELSE NotifyAll(OnFunctionCall(ui, Head(calls).name), Tail(calls))

\* handleFunctionCall: the tool responses sent for the parsed calls
ToolResponses(calls) ==
    IF sessionRef # 0 THEN [i \in DOMAIN calls |-> [id |-> calls[i].id, name |-> calls[i].name]]
    ELSE <<>>

\* no message is being handled
NoMessage ==
    /\ delivered' = <<>> /\ notified' = <<>> /\ responded' = <<>>
    /\ realtimeInput' = "none"
    /\ bargeIn' = NoBargeIn

InitClient ==
    /\ PlayerIdle
    /\ PureIdle
    /\ ServerIdle
    /\ apiKey \in {"", "server-api-key"}
    /\ tokenBody = NoBody
    /\ pc = "idle" /\ flow = "none"
    /\ hasAutoInitialized = FALSE
    /\ isInitializing = TRUE
    /\ sessionEnded = FALSE /\ isClosing = FALSE /\ showMenu = FALSE
    /\ isRecording = FALSE /\ isConnected = FALSE
    /\ sessionRef = 0 /\ sessions = 0
    /\ timers = {}
    /\ playback = "silent"
    /\ delivered = <<>> /\ notified = <<>> /\ responded = <<>>
    /\ openSessions = {}
    /\ realtimeInput = "none"
    /\ initLog = <<>>
    /\ bargeIn = NoBargeIn

\* the effect on page load starts autoInitialize
AutoInitialize ==
    /\ ~isConnected /\ isInitializing /\ ~sessionEnded /\ ~hasAutoInitialized
    /\ hasAutoInitialized' = TRUE
    /\ pc' = "connect" /\ flow' = "auto"
    /\ NoMessage
    /\ UNCHANGED <<apiKey, tokenBody, isInitializing, sessionEnded, isClosing,
                   showMenu, isRecording, isConnected, sessionRef, sessions,
                   timers, playback>>
    /\ UNCHANGED openSessions
    /\ initLog' = <<>>
    /\ UNCHANGED outsideClient

\* a click on 'Go to bar', shown when sessionEnded && !isInitializing
HandleGoToBar ==
    /\ sessionEnded /\ ~isInitializing
    /\ pc = "idle"
    /\ sessions < MaxSessions
    /\ sessionEnded' = FALSE
    /\ isClosing' = FALSE
    /\ pc' = "connect" /\ flow' = "gotobar"
    /\ NoMessage
    /\ UNCHANGED <<apiKey, tokenBody, hasAutoInitialized, isInitializing,
                   showMenu, isRecording, isConnected, sessionRef, sessions,
                   timers, playback>>
    /\ UNCHANGED openSessions
    /\ initLog' = <<>>
    /\ UNCHANGED outsideClient

\* the catch block of the running initialization
FlowFails ==
    /\ pc' = "idle" /\ flow' = "none"
    /\ isInitializing' = IF flow = "auto" THEN FALSE ELSE isInitializing
    /\ sessionEnded' = IF flow = "gotobar" THEN TRUE ELSE sessionEnded

\* connect: session.sendClientContent({turns: [{role: 'user', parts: [{text: ''}]}]})
ConnectGreeting(log) == Append(log, "greeting")

\* geminiSession.sendGreeting()
SendGreeting(log) == Append(log, "greeting")

\* step 1, geminiSession.connect: fetch the token, then open the session
Connect ==
    /\ pc = "connect"
    /\ tokenBody' = TokenRoute(apiKey)
    /\ \/ /\ tokenBody'.status = 200
          /\ sessions < MaxSessions
          /\ isConnected' = TRUE
          /\ sessions' = sessions + 1
          /\ sessionRef' = sessions + 1
          /\ openSessions' = openSessions \cup {sessions + 1}
          /\ initLog' = ConnectGreeting(Append(initLog, "connect"))
          /\ pc' = "audio"
          /\ UNCHANGED <<flow, isInitializing, sessionEnded>>
       \/ /\ isConnected' = FALSE
          /\ FlowFails
          /\ UNCHANGED <<sessions, sessionRef, openSessions, initLog>>
    /\ NoMessage
    /\ UNCHANGED <<apiKey, hasAutoInitialized, isClosing, showMenu, isRecording,
                   timers, playback>>
    /\ UNCHANGED outsideClient

\* step 2, audioPlayback.initialize
AudioInit ==
    /\ pc = "audio"
    /\ \/ /\ pc' = "mic"
          /\ initLog' = Append(initLog, "audio")
          /\ UNCHANGED <<flow, isInitializing, sessionEnded>>
       \/ FlowFails /\ UNCHANGED initLog
    /\ NoMessage
    /\ UNCHANGED <<apiKey, tokenBody, hasAutoInitialized, isClosing, showMenu,
                   isRecording, isConnected, sessionRef, sessions, timers,
                   playback>>
    /\ UNCHANGED openSessions
    /\ UNCHANGED outsideClient

\* steps 3 and 4, audioCapture.startRecording and the greeting
StartRecording ==
    /\ pc = "mic"
    /\ \/ /\ isRecording' = TRUE
          /\ pc' = "idle" /\ flow' = "none"
          /\ isInitializing' = IF flow = "auto" THEN FALSE ELSE isInitializing
          /\ initLog' = SendGreeting(Append(initLog, "mic"))
          /\ UNCHANGED sessionEnded
       \/ FlowFails /\ UNCHANGED <<isRecording, initLog>>
    /\ NoMessage
    /\ UNCHANGED <<apiKey, tokenBody, hasAutoInitialized, isClosing, showMenu,
                   isConnected, sessionRef, sessions, timers, playback>>
    /\ UNCHANGED openSessions
    /\ UNCHANGED outsideClient

\* onmessage: handleMessage parses the message, handles its function call
\* and hands the audio to the player
ServerMessage ==
    /\ sessionRef # 0
    /\ \E m \in Messages :
          LET calls == ParseFunctionCall(m)
              ui == NotifyAll([showMenu |-> showMenu, isClosing |-> isClosing,
                               timers |-> timers], calls)
          IN  /\ Cardinality(ui.timers) <= MaxTimers
              /\ showMenu' = ui.showMenu
              /\ isClosing' = ui.isClosing
              /\ timers' = ui.timers
              /\ delivered' = m.tool \o m.part
              /\ notified' = [i \in DOMAIN calls |-> calls[i].name]
              /\ responded' = ToolResponses(calls)
              /\ playback' = IF m.audio THEN "sounding" ELSE playback
    /\ realtimeInput' = "none"
    /\ bargeIn' = NoBargeIn
    /\ UNCHANGED <<apiKey, tokenBody, pc, flow, hasAutoInitialized,
                   isInitializing, sessionEnded, isRecording, isConnected,
                   sessionRef, sessions>>
    /\ UNCHANGED openSessions
    /\ UNCHANGED initLog
    /\ UNCHANGED outsideClient

\* if (sessionRef.current) sessionRef.current.close()
Close(open, ref) == open \ {ref}

\* handleDisconnect
HandleDisconnect ==
    /\ isRecording' = FALSE
    /\ playback' = "silent"
    /\ openSessions' = Close(openSessions, sessionRef)
    /\ sessionRef' = 0
    /\ isConnected' = FALSE
    /\ showMenu' = FALSE
    /\ isClosing' = FALSE
    /\ sessionEnded' = TRUE

\* a disconnect timer armed by close_session expires
TimerFires ==
    /\ \E tm \in timers :
          /\ tm.remaining = 0
          /\ timers' = timers \ {tm}
    /\ HandleDisconnect
    /\ NoMessage
    /\ UNCHANGED <<apiKey, tokenBody, pc, flow, hasAutoInitialized,
                   isInitializing, sessions>>
    /\ UNCHANGED initLog
    /\ UNCHANGED outsideClient

\* a click on 'Finish your order'
FinishOrder ==
    /\ ~isInitializing /\ ~sessionEnded /\ ~isClosing /\ isRecording
    /\ HandleDisconnect
    /\ NoMessage
    /\ UNCHANGED <<apiKey, tokenBody, pc, flow, hasAutoInitialized,
                   isInitializing, sessions, timers>>
    /\ UNCHANGED initLog
    /\ UNCHANGED outsideClient

\* the response audio plays to its end
PlaybackEnds ==
    /\ playback = "sounding"
    /\ playback' = "silent"
    /\ NoMessage
    /\ UNCHANGED <<apiKey, tokenBody, pc, flow, hasAutoInitialized,
                   isInitializing, sessionEnded, isClosing, showMenu,
                   isRecording, isConnected, sessionRef, sessions, timers>>
    /\ UNCHANGED openSessions
    /\ UNCHANGED initLog
    /\ UNCHANGED outsideClient

\* sendAudio: if (!sessionRef.current) return; sessionRef.current.sendRealtimeInput
SendRealtimeInput(ref) == IF ref = 0 THEN "dropped" ELSE "sent"

\* the capture worklet posts a chunk and the callback given to startRecording
\* passes it to geminiSession.sendAudio
OnAudioData ==
    /\ isRecording
    /\ realtimeInput' = SendRealtimeInput(sessionRef)
    /\ delivered' = <<>> /\ notified' = <<>> /\ responded' = <<>>
    /\ bargeIn' = NoBargeIn
    /\ UNCHANGED <<apiKey, tokenBody, pc, flow, hasAutoInitialized,
                   isInitializing, sessionEnded, isClosing, showMenu,
                   isRecording, isConnected, sessionRef, sessions, timers,
                   playback, openSessions>>
    /\ UNCHANGED initLog
    /\ UNCHANGED outsideClient

\* the values of volumeLevel.volumeLevel (0-100) the effect is run with
VolumeLevels == {0, INTERRUPTION_VOLUME_THRESHOLD, INTERRUPTION_VOLUME_THRESHOLD + 1, 100}

\* mutant: the effect goes on checking while the farewell plays
ChecksInterruptions_WhileClosing(recording, ended, closing) ==
    ~(~recording \/ ended)

\* if (!audioCapture.isRecording || sessionEnded || isClosing) return
ChecksInterruptions(recording, ended, closing) ==
    ~(~recording \/ ended \/ closing)

\* the interruption effect runs with volume level v and calls
\* audioPlayback.emergencyStop() when the user speaks over the bartender
InterruptionEffect ==
    /\ \E v \in VolumeLevels :
          IF /\ ChecksInterruptions(isRecording, sessionEnded, isClosing)
             /\ ShouldInterrupt(v, INTERRUPTION_VOLUME_THRESHOLD,
                                playback = "sounding")
          THEN /\ playback' = "silent"
               /\ bargeIn' = [called |-> TRUE, level |-> v]
          ELSE /\ bargeIn' = NoBargeIn
               /\ UNCHANGED playback
    /\ delivered' = <<>> /\ notified' = <<>> /\ responded' = <<>>
    /\ realtimeInput' = "none"
    /\ UNCHANGED <<apiKey, tokenBody, pc, flow, hasAutoInitialized,
                   isInitializing, sessionEnded, isClosing, showMenu,
                   isRecording, isConnected, sessionRef, sessions, timers,
                   openSessions, initLog>>
    /\ UNCHANGED outsideClient

\* one second passes; a timer that is due fires before the next second
Second ==
    /\ timers # {}
    /\ \A tm \in timers : tm.remaining > 0
    /\ timers' = {[tm EXCEPT !.remaining = tm.remaining - 1] : tm \in timers}
    /\ NoMessage
    /\ UNCHANGED <<apiKey, tokenBody, pc, flow, hasAutoInitialized,
                   isInitializing, sessionEnded, isClosing, showMenu,
                   isRecording, isConnected, sessionRef, sessions, playback>>
    /\ UNCHANGED openSessions
    /\ UNCHANGED initLog
    /\ UNCHANGED outsideClient

\* the render conditions of the four controls
ShowsPreparing == isInitializing

ShowsGoToBar == sessionEnded /\ ~isInitializing

ShowsFinishOrder == ~isInitializing /\ ~sessionEnded /\ ~isClosing /\ isRecording

ShowsGoodbye == isClosing

NextClient ==
    \/ AutoInitialize
    \/ HandleGoToBar
    \/ Connect
    \/ AudioInit
    \/ StartRecording
    \/ ServerMessage
    \/ TimerFires
    \/ FinishOrder
    \/ PlaybackEnds
    \/ OnAudioData
    \/ InterruptionEffect
    \/ Second

SpecClient == InitClient /\ [][NextClient]_vars

\* ------------------------------------------- server-side session manager

\* this.sessions.delete(id)
MapDelete(m, id) == [s \in DOMAIN m \ {id} |-> m[s]]

\* this.sessions.set(id, data)
MapSet(m, id, data) == [s \in DOMAIN m \cup {id} |-> IF s = id THEN data ELSE m[s]]

\* closeSession: if (session) { connection.close(); this.sessions.delete(id) }
CloseSession(m, id) == IF id \in DOMAIN m THEN MapDelete(m, id) ELSE m

\* mutant: a session exactly 3 minutes idle is stale
IsStale_Geq(n, session) == n - session.lastActivity >= SESSION_TIMEOUT

\* now - session.lastActivity > timeout
IsStale(n, session) == n - session.lastActivity > SESSION_TIMEOUT

\* the sessions cleanupStaleSessions calls closeSession for
StaleSessions(m, n) == {id \in DOMAIN m : IsStale(n, m[id])}

\* the loop of cleanupStaleSessions over the ids in ids
RECURSIVE CleanupStaleSessions(_, _, _)
CleanupStaleSessions(m, ids, n) ==
    IF ids = {} THEN m
    ELSE LET id == CHOOSE i \in ids : \A j \in ids : i <= j
         IN  CleanupStaleSessions(
                 IF id \in StaleSessions(m, n) THEN CloseSession(m, id) ELSE m,
                 ids \ {id}, n)

\* mutant: the queue is copied, not emptied
Splice0_Keep(q) == [removed |-> q, rest |-> q]

\* session.messageQueue.splice(0): removes and returns all messages
Splice0(q) == [removed |-> q, rest |-> <<>>]

InitServer == PlayerIdle /\ PureIdle /\ ClientIdle /\ ServerIdle

\* createSession stores the placeholder entry before ai.live.connect()
CreateSession ==
    /\ created < MaxServerSessions
    /\ created' = created + 1
    /\ managerSessions' = MapSet(managerSessions, created + 1,
                                 [lastActivity |-> serverNow,
                                  messageQueue |-> <<>>,
                                  isReady |-> FALSE])
    /\ lastTouched' = [lastTouched EXCEPT ![created + 1] = serverNow]
    /\ returned' = NoCall /\ cleaned' = {}
    /\ UNCHANGED <<serverNow, nextCleanup, arrived, received, fetched>>
    /\ UNCHANGED outsideServer

\* callbacks.onopen of a session being created
OnOpen ==
    /\ \E id \in DOMAIN managerSessions :
          /\ ~managerSessions[id].isReady
          /\ managerSessions' = [managerSessions EXCEPT ![id].isReady = TRUE]
    /\ returned' = NoCall /\ cleaned' = {}
    /\ UNCHANGED <<serverNow, nextCleanup, created, arrived, received, fetched,
                   lastTouched>>
    /\ UNCHANGED outsideServer

\* the catch block of createSession: the connection failed or timed out
CreateSessionFails ==
    /\ \E id \in DOMAIN managerSessions :
          /\ ~managerSessions[id].isReady
          /\ managerSessions' = MapDelete(managerSessions, id)
    /\ returned' = NoCall /\ cleaned' = {}
    /\ UNCHANGED <<serverNow, nextCleanup, created, arrived, received, fetched,
                   lastTouched>>
    /\ UNCHANGED outsideServer

\* sendAudio(sessionId, audioData)
SendAudio ==
    /\ \E id \in SessionIds :
          IF id \notin DOMAIN managerSessions \/ ~managerSessions[id].isReady
          THEN /\ returned' = [op |-> "sendAudio", id |-> id, msgs |-> <<>>,
                               threw |-> TRUE]
               /\ UNCHANGED <<managerSessions, lastTouched>>
          ELSE /\ returned' = [op |-> "sendAudio", id |-> id, msgs |-> <<>>,
                               threw |-> FALSE]
               /\ managerSessions' =
                      [managerSessions EXCEPT ![id].lastActivity = serverNow]
               /\ lastTouched' = [lastTouched EXCEPT ![id] = serverNow]
    /\ cleaned' = {}
    /\ UNCHANGED <<serverNow, nextCleanup, created, arrived, received, fetched>>
    /\ UNCHANGED outsideServer

\* getMessages(sessionId)
GetMessages ==
    /\ \E id \in SessionIds :
          IF id \notin DOMAIN managerSessions
          THEN /\ returned' = [op |-> "getMessages", id |-> id, msgs |-> <<>>,
                               threw |-> FALSE]
               /\ UNCHANGED <<managerSessions, lastTouched, fetched>>
          ELSE LET s == Splice0(managerSessions[id].messageQueue)
               IN  /\ returned' = [op |-> "getMessages", id |-> id,
                                   msgs |-> s.removed, threw |-> FALSE]
                   /\ managerSessions' =
                          [managerSessions EXCEPT ![id].lastActivity = serverNow,
                                                  ![id].messageQueue = s.rest]
                   /\ lastTouched' = [lastTouched EXCEPT ![id] = serverNow]
                   /\ fetched' = [fetched EXCEPT ![id] = @ \o s.removed]
    /\ cleaned' = {}
    /\ UNCHANGED <<serverNow, nextCleanup, created, arrived, received>>
    /\ UNCHANGED outsideServer

\* callbacks.onmessage: handleMessage(sessionId, message)
HandleMessage ==
    /\ arrived < MaxMessages
    /\ arrived' = arrived + 1
    /\ \E id \in 1..created :
          IF id \in DOMAIN managerSessions
          THEN /\ managerSessions' =
                      [managerSessions EXCEPT
                          ![id].messageQueue = Append(@, arrived + 1),
                          ![id].lastActivity = serverNow]
               /\ received' = [received EXCEPT ![id] = Append(@, arrived + 1)]
               /\ lastTouched' = [lastTouched EXCEPT ![id] = serverNow]
          ELSE UNCHANGED <<managerSessions, received, lastTouched>>
    /\ returned' = NoCall /\ cleaned' = {}
    /\ UNCHANGED <<serverNow, nextCleanup, created, fetched>>
    /\ UNCHANGED outsideServer

\* callbacks.onclose: this.sessions.delete(sessionId)
OnClose ==
    /\ \E id \in DOMAIN managerSessions :
          /\ managerSessions[id].isReady
          /\ managerSessions' = MapDelete(managerSessions, id)
    /\ returned' = NoCall /\ cleaned' = {}
    /\ UNCHANGED <<serverNow, nextCleanup, created, arrived, received, fetched,
                   lastTouched>>
    /\ UNCHANGED outsideServer

\* the interval timer fires: cleanupStaleSessions()
CleanupPass ==
    /\ serverNow = nextCleanup
    /\ nextCleanup' = nextCleanup + CLEANUP_INTERVAL
    /\ managerSessions' =
           CleanupStaleSessions(managerSessions, DOMAIN managerSessions, serverNow)
    /\ cleaned' = DOMAIN managerSessions \ DOMAIN managerSessions'
    /\ returned' = NoCall
    /\ UNCHANGED <<serverNow, created, arrived, received, fetched, lastTouched>>
    /\ UNCHANGED outsideServer

\* 15 s pass on the server; a cleanup pass that is due runs first
ServerTick ==
    /\ serverNow < MaxClock
    /\ serverNow < nextCleanup
    /\ serverNow' = serverNow + 1
    /\ returned' = NoCall /\ cleaned' = {}
    /\ UNCHANGED <<managerSessions, nextCleanup, created, arrived, received,
                   fetched, lastTouched>>
    /\ UNCHANGED outsideServer

NextServer ==
    \/ CreateSession
    \/ OnOpen
    \/ CreateSessionFails
    \/ SendAudio
    \/ GetMessages
    \/ HandleMessage
    \/ OnClose
    \/ CleanupPass
    \/ ServerTick

SpecServer == InitServer /\ [][NextServer]_vars


\* ------------------------------------------------------------ vocabulary

RECURSIVE SumDur(_)
SumDur(S) == IF S = {} THEN 0
             ELSE LET s == CHOOSE x \in S : TRUE IN s.dur + SumDur(S \ {s})

RECURSIVE SumLog(_, _, _)
SumLog(log, from, to) == IF from > to THEN 0
                         ELSE log[from].dur + SumLog(log, from + 1, to)

\* a step that pushes a decoded buffer on the queue
Enqueues == Len(enqLog') = Len(enqLog) + 1

\* a step that hands at least one buffer to source.start()
Schedules == Len(schedLog') > Len(schedLog)

\* the first buffer the step schedules
FirstScheduled == schedLog'[Len(schedLog) + 1]

\* buffers scheduled since the latest stop
ScheduledInEpoch == {i \in DOMAIN schedLog : schedLog[i].ep = epoch}

\* in-flight buffers that have not started sounding
NotYetStarted == {s \in currentlyPlayingSources : s.start > currentTime}

\* in-flight buffers whose scheduled end lies in the future
EndsInFuture == {s \in currentlyPlayingSources : s.start + s.dur > currentTime}

\* ----------------------------------------------------------------- claims

\* C1: pre-buffer gating. Counting the enqueues made since the scheduler was
\* IDLE: after the 1st..(PRE_BUFFER_CHUNKS-1)-th the state is BUFFERING and no
\* buffer has been scheduled; after the PRE_BUFFER_CHUNKS-th the state is
\* PLAYING and scheduling has started.
C1_PreBufferGating ==
    /\ fromIdle \in 1..(PRE_BUFFER_CHUNKS - 1) =>
          /\ state = "BUFFERING"
          /\ currentlyPlayingSources = {}
          /\ ScheduledInEpoch = {}
    /\ fromIdle = PRE_BUFFER_CHUNKS =>
          /\ state = "PLAYING"
          /\ ScheduledInEpoch # {}

C1_Witness ==
    /\ fromIdle = PRE_BUFFER_CHUNKS
    /\ epoch = 1
    /\ lastStop = "emergencyStop"
    /\ state = "PLAYING"
    /\ currentlyPlayingSources # {}

\* C2: cancellation clears everything. Every stop() and every emergencyStop()
\* leaves the queue empty, the in-flight set empty, nextScheduledTime unset,
\* the state IDLE and the sounding signal false; the next enqueue then starts
\* a BUFFERING cycle, and the first buffer scheduled after a stop starts at
\* the clock plus the safety margin.
C2_StopClearsEverything ==
    [][/\ epoch' = epoch + 1 =>
             /\ audioQueue' = <<>>
             /\ currentlyPlayingSources' = {}
             /\ nextScheduledTime' = NULL
             /\ state' = "IDLE"
             /\ isPlayingAudio' = FALSE
       /\ (epoch > 0 /\ Enqueues /\ ScheduledInEpoch = {} /\ audioQueue = <<>>) =>
             state' = "BUFFERING"
       /\ (epoch > 0 /\ Schedules /\ ScheduledInEpoch = {}) =>
             FirstScheduled.start = currentTime + SAFETY_MARGIN]_vars

\* C3: cancellation wins a race. emergencyStop() discards every in-flight
\* buffer, and after it no buffer is scheduled until a play() call made after
\* the cancellation has started a new stream.
C3_CancellationWins ==
    [][/\ (epoch' = epoch + 1 /\ lastStop' = "emergencyStop") =>
             currentlyPlayingSources' = {}
       /\ (Schedules /\ lastStop = "emergencyStop") => callsInEpoch > 0]_vars

\* C4: FIFO playout order. For every scheduled buffer B, every buffer A that
\* was enqueued before B with no stop in between was scheduled before B, and
\* A's scheduled end is not later than B's scheduled start.
C4_FifoOrder ==
    \A j \in DOMAIN schedLog :
        \A a \in 1..(schedLog[j].id - 1) :
            enqLog[a] = schedLog[j].ep =>
                \E i \in 1..(j - 1) :
                    /\ schedLog[i].id = a
                    /\ schedLog[i].start + schedLog[i].dur <= schedLog[j].start

C4_Witness ==
    /\ Len(schedLog) >= 5
    /\ epoch = 0
    /\ schedLog[3].start > schedLog[2].start + schedLog[2].dur
    /\ schedLog[1].dur # schedLog[2].dur

\* C5: zero-gap accumulation. When N buffers, enough to end the pre-buffering,
\* have been enqueued back to back from IDLE at clock time t0 = 0 (no tick, no
\* stop, no call pending), all N have been scheduled, each starts where the
\* previous one ends, and nextScheduledTime = t0 + SAFETY_MARGIN + the sum of
\* the N durations.
BackToBack ==
    /\ epoch = 0
    /\ currentTime = 0
    /\ pendingPlays = <<>>
    /\ Len(enqLog) >= PRE_BUFFER_CHUNKS

C5_ZeroGapAccumulation ==
    BackToBack =>
        /\ Len(schedLog) = Len(enqLog)
        /\ \A i \in 2..Len(schedLog) :
               schedLog[i].start = schedLog[i - 1].start + schedLog[i - 1].dur
        /\ nextScheduledTime = 0 + SAFETY_MARGIN + SumLog(schedLog, 1, Len(schedLog))

\* C6 as stated: in RE_BUFFERING every step other than a cancellation or the
\* enqueue that brings the queue to MIN_BUFFER_CHUNKS schedules nothing and
\* keeps the state; that enqueue returns to PLAYING and the first buffer it
\* schedules starts at the preserved nextScheduledTime (the start time is
\* compared for streams that no stop has touched).
C6_Original ==
    [][/\ (state = "RE_BUFFERING" /\ state' # "IDLE"
              /\ ~(Enqueues /\ Len(audioQueue) + 1 >= MIN_BUFFER_CHUNKS)) =>
             (state' = "RE_BUFFERING" /\ ~Schedules)
       /\ (state = "RE_BUFFERING" /\ Enqueues
              /\ Len(audioQueue) + 1 >= MIN_BUFFER_CHUNKS) =>
             /\ state' = "PLAYING"
             /\ Schedules
             /\ epoch = 0 => FirstScheduled.start = nextScheduledTime]_vars

\* C6, amended: as above, but the first resumed buffer starts at the preserved
\* nextScheduledTime only when that time is not earlier than the clock; when
\* the clock has passed it, the buffer starts at the clock plus the margin.
C6_ReBufferRecovery ==
    [][/\ (state = "RE_BUFFERING" /\ state' # "IDLE"
              /\ ~(Enqueues /\ Len(audioQueue) + 1 >= MIN_BUFFER_CHUNKS)) =>
             (state' = "RE_BUFFERING" /\ ~Schedules)
       /\ (state = "RE_BUFFERING" /\ Enqueues
              /\ Len(audioQueue) + 1 >= MIN_BUFFER_CHUNKS) =>
             /\ state' = "PLAYING"
             /\ Schedules
             /\ FirstScheduled.start =
                    IF nextScheduledTime < currentTime
                    THEN currentTime + SAFETY_MARGIN
                    ELSE nextScheduledTime]_vars

\* the 7th enqueue of an uninterrupted stream is the one that resumes from
\* RE_BUFFERING; here it came after the cursor had fallen behind the clock
C6_Witness ==
    /\ epoch = 0
    /\ Len(enqLog) = 7
    /\ state = "PLAYING"
    /\ Len(schedLog) = 7
    /\ schedLog[5].start > schedLog[4].start + schedLog[4].dur

C8_LookAheadBound == Cardinality(NotYetStarted) <= LOOK_AHEAD_CHUNKS

\* C9 as stated: whenever the cursor is set, the durations of the in-flight
\* buffers that end in the future add up to nextScheduledTime - currentTime.
C9_Original ==
    nextScheduledTime # NULL =>
        SumDur(EndsInFuture) = nextScheduledTime - currentTime

\* C9, amended: the in-flight buffers that end in the future are scheduled
\* back to back and the last of them ends at nextScheduledTime, so their
\* durations add up to nextScheduledTime minus the scheduled start of the
\* earliest of them (which may lie before or after the clock).
C9_ZeroGap ==
    EndsInFuture # {} =>
        /\ nextScheduledTime # NULL
        /\ \A s \in EndsInFuture :
               \/ s.start + s.dur = nextScheduledTime
               \/ \E n \in EndsInFuture : n.start = s.start + s.dur
        /\ \E first \in EndsInFuture :
               /\ \A s \in EndsInFuture : first.start <= s.start
               /\ SumDur(EndsInFuture) = nextScheduledTime - first.start

C9_Witness ==
    /\ Cardinality(EndsInFuture) >= 3
    /\ \E s \in EndsInFuture : s.start < currentTime
    /\ \E s \in EndsInFuture : s.start > currentTime
    /\ epoch = 0

\* C10 as stated: across a step taken in PLAYING the cursor does not
\* decrease, and a step that schedules while the cursor is set and a buffer
\* of the current stream has already been scheduled only adds the durations
\* of the buffers it schedules.
C10_Original ==
    [][/\ (state = "PLAYING" /\ nextScheduledTime # NULL
              /\ nextScheduledTime' # NULL) =>
             nextScheduledTime' >= nextScheduledTime
       /\ (Schedules /\ nextScheduledTime # NULL /\ ScheduledInEpoch # {}) =>
             nextScheduledTime' = nextScheduledTime
                 + SumLog(schedLog', Len(schedLog) + 1, Len(schedLog'))]_vars

\* C10, amended: the cursor does not decrease across a step taken in PLAYING;
\* a scheduling step adds the durations of the buffers it schedules to the
\* cursor when the cursor is set and not earlier than the clock, and
\* otherwise (fresh stream, or the clock has passed the cursor: a gap) to
\* currentTime + SAFETY_MARGIN, which exceeds the previous cursor.
C10_CursorMonotone ==
    [][/\ (state = "PLAYING" /\ nextScheduledTime # NULL
              /\ nextScheduledTime' # NULL) =>
             nextScheduledTime' >= nextScheduledTime
       /\ Schedules =>
             nextScheduledTime' =
                 (IF nextScheduledTime = NULL \/ nextScheduledTime < currentTime
                  THEN currentTime + SAFETY_MARGIN
                  ELSE nextScheduledTime)
                 + SumLog(schedLog', Len(schedLog) + 1, Len(schedLog'))
       /\ ~Schedules =>
             nextScheduledTime' \in {nextScheduledTime, NULL}]_vars

\* a buffer of a running stream was scheduled after the clock had passed the
\* cursor, and the cursor was set anew
C10_Witness ==
    /\ epoch = 0
    /\ state = "PLAYING"
    /\ Len(schedLog) >= 4
    /\ schedLog[3].start > schedLog[2].start + schedLog[2].dur
    /\ nextScheduledTime = schedLog[Len(schedLog)].start + schedLog[Len(schedLog)].dur

\* C11: each decoded buffer is scheduled at most once; from its scheduling
\* until its playout ends or a stop()/emergencyStop() clears the set it is in
\* currentlyPlayingSources; and no buffer is at once in the queue and either
\* in flight or already scheduled.
C11_ScheduledOnce ==
    /\ \A i, j \in DOMAIN schedLog :
           schedLog[i].id = schedLog[j].id => i = j
    /\ \A i \in DOMAIN schedLog :
           (schedLog[i].ep = epoch
              /\ schedLog[i].start + schedLog[i].dur > currentTime)
           => [id |-> schedLog[i].id, start |-> schedLog[i].start,
               dur |-> schedLog[i].dur] \in currentlyPlayingSources
    /\ \A k \in DOMAIN audioQueue :
           /\ \A s \in currentlyPlayingSources : s.id # audioQueue[k].id
           /\ \A i \in DOMAIN schedLog : schedLog[i].id # audioQueue[k].id

\* one buffer has played out and left the set, others are in flight, one of
\* them sounding, and buffers wait in the queue
C11_Witness ==
    /\ epoch = 0
    /\ audioQueue # <<>>
    /\ \E s \in currentlyPlayingSources : s.start <= currentTime
    /\ \E i \in DOMAIN schedLog :
           /\ schedLog[i].start + schedLog[i].dur <= currentTime
           /\ \A s \in currentlyPlayingSources : s.id # schedLog[i].id

\* C12: in every reachable state isPlayingAudio is true exactly when
\* currentlyPlayingSources is not empty.
C12_SoundingSignal == isPlayingAudio <=> (currentlyPlayingSources # {})

\* the step is the end of a play() whose chunk does not decode
DecodeFailure ==
    /\ pendingPlays # <<>>
    /\ DecodeThrows(PayloadBytes(Head(pendingPlays).id))
    /\ pendingPlays' = Tail(pendingPlays)

\* C13: decode-error isolation. A play() whose chunk has an odd number of
\* bytes leaves the queue, the in-flight set, the state, the cursor and the
\* signal as they were and logs one error; only that chunk is dropped (every
\* other resumed chunk is enqueued); and the chunks enqueued after it are
\* gated and scheduled as in a stream without it.
C13_DecodeErrorIsolation ==
    /\ [][ /\ DecodeFailure =>
                /\ UNCHANGED <<state, audioQueue, nextScheduledTime,
                               currentlyPlayingSources, isPlayingAudio, schedLog>>
                /\ errorLog' = errorLog + 1
           /\ (/\ pendingPlays # <<>>
               /\ pendingPlays' = Tail(pendingPlays)
               /\ ~DecodeFailure) => Enqueues
         ]_vars
    /\ [] /\ errorLog <= 1
          /\ Len(enqLog) + errorLog + Len(pendingPlays) = nextId
          /\ fromIdle \in 1..(PRE_BUFFER_CHUNKS - 1) =>
                 state = "BUFFERING" /\ ScheduledInEpoch = {}
          /\ fromIdle = PRE_BUFFER_CHUNKS =>
                 state = "PLAYING" /\ ScheduledInEpoch # {}

\* the 2nd chunk was dropped in BUFFERING; the 1st, 3rd, 4th and 5th then
\* filled the pre-buffer and the first three of them play back to back
C13_Witness ==
    /\ oddChunk = 2
    /\ errorLog = 1
    /\ epoch = 0
    /\ state = "PLAYING"
    /\ Len(schedLog) >= 3
    /\ schedLog[1].id = 1 /\ schedLog[2].id = 3 /\ schedLog[3].id = 4
    /\ schedLog[2].start = schedLog[1].start + schedLog[1].dur
    /\ schedLog[3].start = schedLog[2].start + schedLog[2].dur

\* C14: for every level and threshold in 0..100 and either value of
\* isPlaybackActive, the interruption check decides to interrupt exactly when
\* level > threshold (strictly) and isPlaybackActive.
C14_InterruptionPolicy ==
    (pureCase = "interrupt" /\ interrupts # "unset") =>
        /\ (interrupts = "yes") <=> (level > threshold /\ isPlaybackActive)
        /\ (level = 30 /\ threshold = 22 /\ isPlaybackActive) => interrupts = "yes"
        /\ (level = 30 /\ threshold = 22 /\ ~isPlaybackActive) => interrupts = "no"
        /\ (level = 22 /\ threshold = 22 /\ isPlaybackActive) => interrupts = "no"

\* the check has run on level 23, one above the threshold 22, during playback
C14_Witness ==
    /\ pureCase = "interrupt"
    /\ level = 23 /\ threshold = 22 /\ isPlaybackActive
    /\ interrupts = "yes"

\* C15: every Int16 value survives Int16 -> Float32 -> Int16, and every Int16
\* sequence survives Int16 -> bytes -> base64 -> bytes -> Int16.
C15_PcmRoundTrip ==
    (pureCase = "pcm" /\ viaFloat32 # <<>>) =>
        /\ viaFloat32 = int16Array
        /\ viaTransport = int16Array

\* C16: 48000 Hz -> 16000 Hz turns n samples into ceil(n / 3) samples, 160
\* for n = 480, and output sample k is input sample 3k.
C16_DownsampleLength ==
    (pureCase = "downsample" /\ output16kHz # <<>>) =>
        /\ Len(output16kHz) = (Len(inputSamples) + 2) \div 3
        /\ Len(inputSamples) = 480 => Len(output16kHz) = 160
        /\ \A k \in 0..(Len(output16kHz) - 1) :
               output16kHz[k + 1] = inputSamples[3 * k + 1]

\* an input whose length is no multiple of 3 has been converted
C16_Witness ==
    /\ pureCase = "downsample"
    /\ Len(inputSamples) = 479
    /\ Len(output16kHz) = 160
    /\ output16kHz[160] = inputSamples[478]

\* the windows of the posted chunks, one after the other
RECURSIVE Concat(_)
Concat(ws) == IF ws = <<>> THEN <<>> ELSE Head(ws) \o Concat(Tail(ws))

\* C17: the capture worklet loses no sample: the windows of the posted chunks
\* followed by the accumulator are the samples passed in, in order, each
\* once; a chunk is posted only when the accumulator has reached
\* TARGET_CHUNK_SIZE; what is not posted stays in the accumulator.
C17_NoSampleLoss ==
    pureCase = "capture" =>
        /\ Concat(emitted) \o buffer = [i \in 1..fed |-> i]
        /\ \A w \in DOMAIN emitted : Len(emitted[w]) >= TARGET_CHUNK_SIZE
        /\ Len(buffer) < TARGET_CHUNK_SIZE

\* two chunks were posted, the first larger than the target size, and
\* samples of a third are accumulating
C17_Witness ==
    /\ pureCase = "capture"
    /\ Len(emitted) = 2
    /\ Len(emitted[1]) > TARGET_CHUNK_SIZE
    /\ buffer # <<>>

\* C18: for every function call of a delivered server message, the hook
\* notifies onFunctionCall and sends exactly one tool response with the id
\* and the name of that call.
C18_FunctionCallIdMatching ==
    /\ responded = delivered
    /\ notified = [i \in DOMAIN delivered |-> delivered[i].name]

\* the body of a response contains the key
Leaks(body, key) == key # "" /\ (body.token = key \/ body.error = key)

\* C19: no response body of POST /api/gemini/token contains the value of
\* GEMINI_API_KEY.
C19_KeyNeverExposed == ~Leaks(tokenBody, apiKey)

\* the message just delivered holds a close_session call
CloseSessionReceived ==
    \E i \in DOMAIN delivered' : delivered'[i].name = "close_session"

\* a disconnect timer fires in this step
TimerFired == Cardinality(timers') < Cardinality(timers)

\* C20: a close_session call received in an open session sets isClosing and
\* hides the menu at once; the session in which the first close_session
\* armed the timer stays open until that timer fires, 6 seconds later; the
\* firing timer leaves recording and playback stopped, the session
\* disconnected, isClosing false and sessionEnded true.
C20_AISessionEnd ==
    /\ [][ /\ CloseSessionReceived => (isClosing' /\ ~showMenu')
           /\ TimerFired =>
                 /\ ~isRecording' /\ playback' = "silent"
                 /\ sessionRef' = 0 /\ ~isConnected'
                 /\ ~isClosing' /\ sessionEnded'
         ]_vars
    /\ [] \A tm \in timers :
             (tm.first /\ tm.remaining > 0) =>
                 (sessionRef = tm.session /\ isClosing)

\* the k-th chunk of the stream has been scheduled and has played to its end
Played(k) ==
    \E i \in DOMAIN schedLog :
        /\ schedLog[i].id = k
        /\ schedLog[i].start + schedLog[i].dur <= currentTime
        /\ \A s \in currentlyPlayingSources : s.id # k

\* C21: playout liveness. In a stream that is never stopped, whatever its
\* length, every buffer that has been enqueued is eventually scheduled and
\* plays to its end, also when no further chunk arrives.
C21_PlayoutLiveness ==
    \A k \in 1..MaxChunks : (Len(enqLog) >= k) ~> Played(k)

\* C22: after an emergencyStop() no chunk of the interrupted response is
\* scheduled: every scheduled buffer was enqueued in the epoch in which its
\* play() call was made, so no play() that began before the stop schedules
\* its buffer after it.
C22_NoStaleChunk ==
    lastStop = "emergencyStop" =>
        \A i \in DOMAIN schedLog : schedLog[i].cep = schedLog[i].ep

\* a step in which an onended callback of a source that played out runs
Completes ==
    /\ epoch' = epoch
    /\ currentlyPlayingSources' # currentlyPlayingSources
    /\ currentlyPlayingSources' \subseteq currentlyPlayingSources

\* C23: the state becomes IDLE only in a stop()/emergencyStop() step; the
\* completion of an in-flight buffer leaves the state as it is, also when it
\* was the last one and the queue is empty; and an enqueue made after all the
\* scheduled buffers of the stream have played out does not enter BUFFERING.
C23_IdleOnlyByStop ==
    [][/\ (state' = "IDLE" /\ state # "IDLE") => epoch' = epoch + 1
       /\ Completes => state' = state
       /\ (Enqueues /\ ScheduledInEpoch # {} /\ currentlyPlayingSources = {}) =>
             /\ state # "IDLE"
             /\ state' \in {"PLAYING", "RE_BUFFERING"}]_vars

\* seven buffers were scheduled and have all played out, leaving the queue
\* empty and the state PLAYING, and the play() call of an eighth chunk is
\* about to enqueue it
C23_Witness ==
    /\ epoch = 0
    /\ Len(schedLog) = 7
    /\ Len(enqLog) = 7
    /\ currentlyPlayingSources = {}
    /\ audioQueue = <<>>
    /\ state = "PLAYING"
    /\ pendingPlays # <<>>

\* the value of the cursor from which the i-th buffer of the log was
\* scheduled: the cursor before the step for the first buffer the step
\* schedules, the end of the previous buffer for the others
CursorBefore(i) ==
    IF i = Len(schedLog) + 1 THEN nextScheduledTime
    ELSE schedLog'[i - 1].start + schedLog'[i - 1].dur

\* C24: the scheduling step. A buffer scheduled when the cursor is unset or
\* earlier than the clock starts at the clock plus SAFETY_MARGIN, any other
\* at the cursor; the cursor then is the buffer's start plus its duration;
\* and no buffer starts earlier than the clock time of its scheduling.
C24_SchedulingStep ==
    [][Schedules =>
         /\ \A i \in (Len(schedLog) + 1)..Len(schedLog') :
               /\ schedLog'[i].start =
                     IF CursorBefore(i) = NULL \/ CursorBefore(i) < currentTime
                     THEN currentTime + SAFETY_MARGIN
                     ELSE CursorBefore(i)
               /\ schedLog'[i].start >= currentTime
         /\ nextScheduledTime' = schedLog'[Len(schedLog')].start
                                   + schedLog'[Len(schedLog')].dur]_vars

\* one buffer was scheduled from a cursor that lay in the past, one from a
\* cursor equal to the clock and one from a cursor ahead of the clock
C24_Witness ==
    /\ epoch = 0
    /\ Len(schedLog) >= 6
    /\ schedLog[1].start = SAFETY_MARGIN
    /\ schedLog[2].start = schedLog[1].start + schedLog[1].dur
    /\ schedLog[3].start > schedLog[2].start + schedLog[2].dur
    /\ schedLog[5].start = schedLog[4].start + schedLog[4].dur
    /\ schedLog[5].start = currentTime
    /\ nextScheduledTime = schedLog[Len(schedLog)].start
                             + schedLog[Len(schedLog)].dur

\* a play() step that takes the scheduler from PLAYING to RE_BUFFERING
EntersReBuffering == state = "PLAYING" /\ state' = "RE_BUFFERING"

\* C25: the step from PLAYING to RE_BUFFERING, taken by play() after its
\* push, schedules nothing and leaves the in-flight set, the start times of
\* the in-flight buffers and the cursor as they are; the queue is the queue
\* as the push left it, nothing is taken from it; and while the scheduler is
\* RE_BUFFERING every buffer scheduled since the latest stop whose end lies
\* ahead is still in flight.
C25_ReBufferingFrame ==
    /\ [][EntersReBuffering =>
             /\ currentlyPlayingSources' = currentlyPlayingSources
             /\ schedLog' = schedLog
             /\ nextScheduledTime' = nextScheduledTime
             /\ Len(audioQueue') = Len(audioQueue) + 1
             /\ \A k \in DOMAIN audioQueue : audioQueue'[k] = audioQueue[k]]_vars
    /\ [](state = "RE_BUFFERING" =>
             \A i \in DOMAIN schedLog :
                 (schedLog[i].ep = epoch
                    /\ schedLog[i].start + schedLog[i].dur > currentTime)
                 => \E s \in currentlyPlayingSources :
                        s.id = schedLog[i].id /\ s.start = schedLog[i].start)

\* the sixth enqueue of a stream found the queue low: the scheduler is
\* RE_BUFFERING, two buffers wait in the queue and scheduled buffers are
\* still in flight, one of them sounding
C25_Witness ==
    /\ epoch = 0
    /\ state = "RE_BUFFERING"
    /\ Len(enqLog) = 6
    /\ Len(audioQueue) = 2
    /\ Len(schedLog) = 4
    /\ \E s \in currentlyPlayingSources :
           s.start <= currentTime /\ s.start + s.dur > currentTime
    /\ \E s \in currentlyPlayingSources : s.start > currentTime

\* C26: the shape of the scheduler's states. IDLE: the queue and the
\* in-flight set are empty and the cursor is unset. BUFFERING: the queue holds
\* at least one and fewer than PRE_BUFFER_CHUNKS buffers and nothing is in
\* flight.
C26_StateShape ==
    /\ state = "IDLE" =>
          /\ audioQueue = <<>>
          /\ currentlyPlayingSources = {}
          /\ nextScheduledTime = NULL
    /\ state = "BUFFERING" =>
          /\ Len(audioQueue) \in 1..(PRE_BUFFER_CHUNKS - 1)
          /\ currentlyPlayingSources = {}

\* a step in which the onended callback of a halted source runs
LateOnEnded == stoppedSources' # stoppedSources /\ epoch' = epoch

\* C27: an onended callback that runs for a source which a stop has halted
\* and removed takes no buffer out of the in-flight set, and leaves the
\* sounding signal as it is while a buffer is in flight.
C27_LateOnEnded ==
    [][LateOnEnded =>
         /\ currentlyPlayingSources' = currentlyPlayingSources
         /\ currentlyPlayingSources # {} => isPlayingAudio' = isPlayingAudio]_vars

\* after an emergencyStop() a new stream has buffers in flight and the
\* signal raised, and the onended of every halted source has run: a buffer of
\* the old stream whose end lay ahead of the clock is in neither set
C27_Witness ==
    /\ lastStop = "emergencyStop"
    /\ currentlyPlayingSources # {}
    /\ isPlayingAudio
    /\ stoppedSources = {}
    /\ \E i \in DOMAIN schedLog :
           /\ schedLog[i].ep = 0
           /\ schedLog[i].start + schedLog[i].dur > currentTime

\* C28: a disconnect timer armed by close_session ends only the session in
\* which it was armed: when a timer fires while a session is open, that
\* session is the one whose close_session call armed the timer.
C28_TimerEndsOwnSession ==
    [][TimerFired =>
         \A tm \in timers \ timers' :
             sessionRef # 0 => tm.session = sessionRef]_vars

\* C29: while isClosing is true no captured microphone audio is sent to the
\* Gemini session.
C29_NoAudioWhileClosing == realtimeInput = "sent" => ~isClosing

\* C30: at most one Gemini session is open at any time, and an open session
\* is the one sessionRef refers to.
C30_OneOpenSession ==
    /\ Cardinality(openSessions) <= 1
    /\ \A s \in openSessions : s = sessionRef

\* C31: the voice-chat UI has no dead end. Whenever no initialization is
\* running, one of 'Preparing session...', 'Go to bar', 'Finish your order'
\* and 'Saying goodbye...' is shown.
C31_NoDeadEnd ==
    pc = "idle" =>
        ShowsPreparing \/ ShowsGoToBar \/ ShowsFinishOrder \/ ShowsGoodbye

\* the order in which an initialization takes its steps
InitSteps == <<"connect", "audio", "mic">>

\* the steps of the log, the greeting triggers left out
StepsDone == SelectSeq(initLog, LAMBDA s : s # "greeting")

\* C32: an initialization takes its steps in the order connect, playback
\* AudioContext, microphone, greeting; a greeting trigger is sent only after
\* the three steps before it have succeeded, so an initialization in which a
\* step fails sends none; and autoInitialize starts at most once.
C32_InitOrder ==
    /\ [](/\ Len(StepsDone) <= Len(InitSteps)
          /\ \A i \in DOMAIN StepsDone : StepsDone[i] = InitSteps[i]
          /\ \A i \in DOMAIN initLog :
                initLog[i] = "greeting" =>
                    \A k \in DOMAIN InitSteps :
                        \E j \in 1..(i - 1) : initLog[j] = InitSteps[k])
    /\ [][(flow' = "auto" /\ flow # "auto") => ~hasAutoInitialized]_vars

\* C33: the playback queue is bounded. In every reachable state, whatever the
\* arrival pattern of the chunks, the queue holds at most QUEUE_LIMIT buffers.
C33_QueueBound == Len(audioQueue) <= QUEUE_LIMIT

\* a burst: eight chunks were enqueued before the clock moved, seven of them
\* are scheduled and one waits in the queue
C33_Witness ==
    /\ currentTime = 0
    /\ epoch = 0
    /\ Len(enqLog) = 8
    /\ Len(schedLog) = 7
    /\ Len(audioQueue) = 1
    /\ state = "RE_BUFFERING"

Distance(j, k, sourceRate, targetRate) ==
    IF j * targetRate >= k * sourceRate
    THEN j * targetRate - k * sourceRate
    ELSE k * sourceRate - j * targetRate

\* C35: nearest-neighbour decimation. For every ratio sampleRate / 16000 > 1,
\* 44100 / 16000 included, output sample k is the input sample whose index is
\* nearest to the source position k * ratio (inputSamples[j + 1] = j here).
C35_NearestNeighbour ==
    (pureCase = "decimate" /\ output16kHz # <<>>) =>
        \A k \in 0..(Len(output16kHz) - 1) :
            \A j \in 0..(Len(inputSamples) - 1) :
                Distance(output16kHz[k + 1], k, sampleRate, OUTPUT_SAMPLE_RATE)
                    <= Distance(j, k, sampleRate, OUTPUT_SAMPLE_RATE)

IdleOverThreeMinutes ==
    {id \in DOMAIN managerSessions : serverNow - lastTouched[id] > 12}

\* this step is a pass of the cleanup interval
IsCleanupPass == nextCleanup' # nextCleanup

\* C37: server-side session expiry. A cleanup pass closes and removes exactly
\* the sessions whose last activity (creation, sendAudio, getMessages or an
\* incoming server message) is more than 3 minutes old; a session with
\* activity within the last 3 minutes is never removed by cleanup; and no
\* session stays in the map for more than 3 minutes 30 seconds (14 units)
\* after its last activity, the next 30-second pass having removed it.
C37_SessionExpiry ==
    /\ [][IsCleanupPass =>
             /\ cleaned' = IdleOverThreeMinutes
             /\ DOMAIN managerSessions' = DOMAIN managerSessions \ IdleOverThreeMinutes
             /\ \A id \in DOMAIN managerSessions' :
                   managerSessions'[id] = managerSessions[id]]_vars
    /\ [][\A id \in DOMAIN managerSessions :
             serverNow - lastTouched[id] <= 12 => id \notin cleaned']_vars
    /\ [](\A id \in DOMAIN managerSessions : serverNow - lastTouched[id] <= 14)

\* a pass has removed session 1, idle for 3 minutes 15 seconds, and kept
\* session 2, idle for exactly 3 minutes
C37_Witness ==
    /\ cleaned = {1}
    /\ serverNow - lastTouched[1] = 13
    /\ 2 \in DOMAIN managerSessions
    /\ serverNow - lastTouched[2] = 12

\* the queue of session id, empty for a session that is not in the map
QueueOf(id) ==
    IF id \in DOMAIN managerSessions THEN managerSessions[id].messageQueue ELSE <<>>

\* C38: server-side message queue. getMessages(sessionId) returns all the
\* messages queued for the session since the previous call, in arrival order,
\* and leaves the queue empty, so no message is returned twice; for an
\* unknown session it returns an empty list without an error.
C38_MessageQueue ==
    /\ [][returned'.op = "getMessages" =>
             LET id == returned'.id
             IN  /\ ~returned'.threw
                 /\ returned'.msgs = QueueOf(id)
                 /\ fetched'[id] = fetched[id] \o QueueOf(id)
                 /\ IF id \in DOMAIN managerSessions
                    THEN /\ id \in DOMAIN managerSessions'
                         /\ managerSessions'[id].messageQueue = <<>>
                    ELSE managerSessions' = managerSessions]_vars
    /\ [](\A id \in SessionIds :
             /\ id \in DOMAIN managerSessions =>
                   fetched[id] \o QueueOf(id) = received[id]
             /\ \A i, j \in DOMAIN fetched[id] :
                   i < j => fetched[id][i] < fetched[id][j])

\* the second getMessages call for session 1 has returned only the message
\* that arrived after the first call
C38_Witness ==
    /\ returned = [op |-> "getMessages", id |-> 1, msgs |-> <<2>>, threw |-> FALSE]
    /\ fetched[1] = <<1, 2>>
    /\ received[1] = <<1, 2>>
    /\ managerSessions[1].messageQueue = <<>>

TypeOK ==
    /\ state \in {"IDLE", "BUFFERING", "PLAYING", "RE_BUFFERING"}
    /\ nextScheduledTime \in {NULL} \cup Nat
    /\ isPlayingAudio \in BOOLEAN
    /\ currentTime \in 0..MaxTime
====
